---- MODULE Spec2Model ----
(***************************************************************************)
(* bytescolor: the ByteColor trait (src/src/lib.rs) and its                *)
(* implementations for the primitive integers, &str, String, &[u8],        *)
(* Vec<u8> and &[u8; N].                                                   *)
(*                                                                         *)
(* A Rust String is modelled as what it is: a sequence of bytes (0..255)   *)
(* that is well-formed UTF-8.  An integer is modelled as its machine       *)
(* representation: the little-endian bytes of its two's complement value.  *)
(***************************************************************************)
EXTENDS Integers, Sequences, FiniteSets, TLC

VARIABLES value, orig, op, arg, out, status, left, chain

vars == <<value, orig, op, arg, out, status, left, chain>>

-----------------------------------------------------------------------------
(* Bounds of the model. *)

\* the frames of delegation a call may stack before the stack is taken to
\* overflow
MaxDepth == 3

\* the longest text input, in characters
MaxTextLen == 3
\* the longest byte input drawn from ByteAlphabet, in bytes
MaxBytesLen == 3
\* integer inputs lie within this distance of 0, of the type's minimum and
\* of its maximum (and of the other bit patterns of WideInts)
NumSpread == 2

\* calls each of the concurrent callers makes
ConcCalls == 2

-----------------------------------------------------------------------------
(* Characters of the format strings. *)

ESC == 27

\* the byte of an ASCII character as it is written in a Rust literal
Ascii(c) ==
    CASE c = "ESC" -> ESC
      [] c = "[" -> 91
      [] c = ";" -> 59
      [] c = "m" -> 109
      [] c = "{" -> 123
      [] c = "}" -> 125
      [] c = "-" -> 45
      [] c = "0" -> 48
      [] c = "1" -> 49
      [] c = "2" -> 50
      [] c = "3" -> 51
      [] c = "4" -> 52
      [] c = "5" -> 53
      [] c = "6" -> 54
      [] c = "7" -> 55
      [] c = "8" -> 56
      [] c = "9" -> 57

\* a string literal, given character by character
Lit(cs) == [i \in 1..Len(cs) |-> Ascii(cs[i])]

Byte == 0..255

-----------------------------------------------------------------------------
(* format!: the pieces of the format string are copied and each {} is      *)
(* replaced by the Display text of the next argument, into a new String.   *)

RECURSIVE format_from(_, _)
format_from(f, args) ==
    IF f = <<>> THEN <<>>
    ELSE IF Head(f) = Ascii("{") /\ Len(f) > 1 /\ Head(Tail(f)) = Ascii("}")
         THEN Head(args) \o format_from(Tail(Tail(f)), Tail(args))
         ELSE <<Head(f)>> \o format_from(Tail(f), args)

\* a formatter that appends to one buffer shared by all callers and never
\* cleared: what an earlier call returned comes first
format_static(f, args) ==
    IF \E c \in DOMAIN out : status[c] = "returned"
    THEN out[CHOOSE c \in DOMAIN out : status[c] = "returned"] \o format_from(f, args)
    ELSE format_from(f, args)

format(f, args) == format_from(f, args)

-----------------------------------------------------------------------------
(* The primitive integer types of impl_colorize_for_primitive! and their   *)
(* Display.  A value is [ty, data]: data are the little-endian bytes of    *)
(* the two's complement representation, Len(data) the width in bytes.      *)

PrimTypes == {"u8", "u16", "u32", "u64", "i8", "i16", "i32", "i64", "usize"}

SignedTypes == {"i8", "i16", "i32", "i64"}

\* the widths in bytes a type can have (usize follows the target's pointer width)
Widths(ty) ==
    CASE ty \in {"u8", "i8"} -> {1}
      [] ty \in {"u16", "i16"} -> {2}
      [] ty \in {"u32", "i32"} -> {4}
      [] ty \in {"u64", "i64"} -> {8}
      [] ty = "usize" -> {4, 8}

\* *self >= 0
is_nonnegative(ty, bits) == ty \notin SignedTypes \/ bits[Len(bits)] < 128

\* self as u64: zero extension of an unsigned, sign extension of a signed value
\* a widening that zero-extends signed values too
to_u64_zero_extended(ty, bits) ==
    [i \in 1..8 |-> IF i <= Len(bits) THEN bits[i] ELSE 0]

to_u64(ty, bits) ==
    [i \in 1..8 |-> IF i <= Len(bits) THEN bits[i]
                    ELSE IF is_nonnegative(ty, bits) THEN 0 ELSE 255]

\* !n
not_u64(n) == [i \in 1..Len(n) |-> 255 - n[i]]

\* the carry into byte i of n + 1
RECURSIVE carry_in(_, _)
carry_in(n, i) ==
    IF i = 1 THEN 1
    ELSE IF n[i - 1] = 255 /\ carry_in(n, i - 1) = 1 THEN 1 ELSE 0

\* n.wrapping_add(1)
wrapping_add_1(n) == [i \in 1..Len(n) |-> (n[i] + carry_in(n, i)) % 256]

is_zero(n) == \A i \in 1..Len(n) : n[i] = 0

\* bytes i..Len(n) of n divided by 10: the remainder, then the quotient's bytes
RECURSIVE divrem10_from(_, _)
divrem10_from(n, i) ==
    IF i > Len(n) THEN <<0>>
    ELSE LET hi == divrem10_from(n, i + 1)
             cur == Head(hi) * 256 + n[i]
         IN  <<cur % 10, cur \div 10>> \o Tail(hi)

\* the decimal digits of n > 0, most significant first
RECURSIVE digits_of(_)
digits_of(n) ==
    IF is_zero(n) THEN <<>>
    ELSE LET d == divrem10_from(n, 1)
         IN  digits_of(Tail(d)) \o <<Ascii("0") + Head(d)>>

\* core::fmt::num: the digits of n, after a '-' when the value is negative
fmt_u64(n, nonneg) ==
    LET buf == IF is_zero(n) THEN <<Ascii("0")>> ELSE digits_of(n)
    IN  IF nonneg THEN buf ELSE <<Ascii("-")>> \o buf

\* <$t as Display>::fmt with the format spec {}
Display_int(v) ==
    LET nonneg == is_nonnegative(v.ty, v.data)
        n == IF nonneg THEN to_u64(v.ty, v.data)
             ELSE wrapping_add_1(not_u64(to_u64(v.ty, v.data)))
    IN  fmt_u64(n, nonneg)

\* a u8 parameter (a colour component, a palette code) as a value
u8(k) == [ty |-> "u8", data |-> <<k>>]

\* <str as Display>::fmt with the format spec {}: the bytes as they are
\* a Display that leaves out the ESC characters of the text
IsNotEsc(b) == b # ESC

Display_str_unescaped(s) == SelectSeq(s, IsNotEsc)

Display_str(s) == s

-----------------------------------------------------------------------------
(* String::from_utf8_lossy, by core::str::Utf8Chunks.  Indices are the     *)
(* zero-based indices of the Rust code.                                    *)

\* U+FFFD in UTF-8
REPLACEMENT == <<239, 191, 189>>

\* a width table that knows no four-byte characters
utf8_char_width_bmp(b) ==
    IF b < 128 THEN 1
    ELSE IF b < 194 THEN 0
    ELSE IF b < 224 THEN 2
    ELSE IF b < 240 THEN 3
    ELSE 0

\* core::str::utf8_char_width
utf8_char_width(b) ==
    IF b < 128 THEN 1
    ELSE IF b < 194 THEN 0
    ELSE IF b < 224 THEN 2
    ELSE IF b < 240 THEN 3
    ELSE IF b < 245 THEN 4
    ELSE 0

\* safe_get: the byte at index i, 0 beyond the end
\* a lookup that clamps the index to the last byte instead of yielding 0
safe_get_clamped(s, i) == IF i < Len(s) THEN s[i + 1] ELSE s[Len(s)]

safe_get(s, i) == IF i < Len(s) THEN s[i + 1] ELSE 0

\* b & 192 == TAG_CONT
is_cont(b) == b >= 128 /\ b < 192

\* the (lead, second byte) pairs a three-byte character may start with
\* a second-byte test that takes any continuation byte after any lead
second_of_3_any_cont(b, c) == b >= 224 /\ b <= 239 /\ c >= 128 /\ c <= 191

second_of_3(b, c) ==
    \/ b = 224 /\ c >= 160 /\ c <= 191
    \/ b >= 225 /\ b <= 236 /\ c >= 128 /\ c <= 191
    \/ b = 237 /\ c >= 128 /\ c <= 159
    \/ b >= 238 /\ b <= 239 /\ c >= 128 /\ c <= 191

\* the (lead, second byte) pairs a four-byte character may start with
second_of_4(b, c) ==
    \/ b = 240 /\ c >= 144 /\ c <= 191
    \/ b >= 241 /\ b <= 243 /\ c >= 128 /\ c <= 191
    \/ b = 244 /\ c >= 128 /\ c <= 143

\* the loop of Utf8Chunks::next from index i with valid_up_to = vut:
\* <<i, valid_up_to>> when the loop ends or breaks
RECURSIVE scan(_, _, _)
scan(s, i, vut) ==
    IF ~(i < Len(s)) THEN <<i, vut>>
    ELSE LET byte == s[i + 1]
             j == i + 1
             w == utf8_char_width(byte)
         IN  IF byte < 128 THEN scan(s, j, j)
             ELSE CASE w = 2 ->
                         IF ~is_cont(safe_get(s, j)) THEN <<j, vut>>
                         ELSE scan(s, j + 1, j + 1)
                    [] w = 3 ->
                         IF ~second_of_3(byte, safe_get(s, j)) THEN <<j, vut>>
                         ELSE IF ~is_cont(safe_get(s, j + 1)) THEN <<j + 1, vut>>
                         ELSE scan(s, j + 2, j + 2)
                    [] w = 4 ->
                         IF ~second_of_4(byte, safe_get(s, j)) THEN <<j, vut>>
                         ELSE IF ~is_cont(safe_get(s, j + 1)) THEN <<j + 1, vut>>
                         ELSE IF ~is_cont(safe_get(s, j + 2)) THEN <<j + 2, vut>>
                         ELSE scan(s, j + 3, j + 3)
                    [] OTHER -> <<j, vut>>

\* Utf8Chunks::next on a non-empty source: the chunk's valid and invalid
\* parts and the rest of the source; split_at panics when its index is
\* beyond the end
Utf8Chunks_next(s) ==
    LET e == scan(s, 0, 0)
        i == Head(e)
        valid_up_to == Head(Tail(e))
    IN  IF i > Len(s)
        THEN [panic |-> TRUE, valid |-> <<>>, invalid |-> <<>>, rest |-> <<>>]
        ELSE [panic |-> FALSE,
              valid |-> SubSeq(s, 1, valid_up_to),
              invalid |-> SubSeq(s, valid_up_to + 1, i),
              rest |-> SubSeq(s, i + 1, Len(s))]

\* the loop of from_utf8_lossy over the chunks: [s, panic]
\* a loop that writes one U+FFFD for a whole run of invalid chunks
RECURSIVE lossy_run_collapsing(_)
lossy_run_collapsing(s) ==
    IF s = <<>> THEN [s |-> <<>>, panic |-> FALSE]
    ELSE LET c == Utf8Chunks_next(s)
         IN  IF c.panic THEN [s |-> <<>>, panic |-> TRUE]
             ELSE LET r == lossy_run_collapsing(c.rest)
                  IN  [s |-> c.valid
                             \o (IF c.invalid # <<>>
                                    /\ (Len(r.s) < 3 \/ SubSeq(r.s, 1, 3) # REPLACEMENT)
                                 THEN REPLACEMENT ELSE <<>>)
                             \o r.s,
                       panic |-> r.panic]

RECURSIVE lossy_run(_)
lossy_run(s) ==
    IF s = <<>> THEN [s |-> <<>>, panic |-> FALSE]
    ELSE LET c == Utf8Chunks_next(s)
         IN  IF c.panic THEN [s |-> <<>>, panic |-> TRUE]
             ELSE LET r == lossy_run(c.rest)
                  IN  [s |-> c.valid
                             \o (IF c.invalid # <<>> THEN REPLACEMENT ELSE <<>>)
                             \o r.s,
                       panic |-> r.panic]

\* String::from_utf8_lossy(v)
from_utf8_lossy(v) == lossy_run(v).s

-----------------------------------------------------------------------------
(* The implementations of ByteColor.  self is [ty, data]: data are the     *)
(* bytes of the integer, of the text (UTF-8) or of the byte sequence.      *)

\* an as_ref that yields the array reference itself
as_ref_array(self) == self

\* <[u8; N] as AsRef<[u8]>>::as_ref: the array's bytes as a slice
as_ref(self) == [ty |-> "&[u8]", data |-> self.data]

\* impl_colorize_for_primitive::red
prim_red(self) ==
    format(Lit(<<"ESC", "[", "3", "1", "m", "{", "}", "ESC", "[", "0", "m">>),
           <<Display_int(self)>>)

\* impl_colorize_for_primitive::green
prim_green(self) ==
    format(Lit(<<"ESC", "[", "3", "2", "m", "{", "}", "ESC", "[", "0", "m">>),
           <<Display_int(self)>>)

\* impl_colorize_for_primitive::yellow
prim_yellow(self) ==
    format(Lit(<<"ESC", "[", "3", "3", "m", "{", "}", "ESC", "[", "0", "m">>),
           <<Display_int(self)>>)

\* impl_colorize_for_primitive::magenta
prim_magenta(self) ==
    format(Lit(<<"ESC", "[", "3", "5", "m", "{", "}", "ESC", "[", "0", "m">>),
           <<Display_int(self)>>)

\* impl_colorize_for_primitive::cyan
prim_cyan(self) ==
    format(Lit(<<"ESC", "[", "3", "6", "m", "{", "}", "ESC", "[", "0", "m">>),
           <<Display_int(self)>>)

\* impl_colorize_for_primitive::blue
prim_blue(self) ==
    format(Lit(<<"ESC", "[", "3", "4", "m", "{", "}", "ESC", "[", "0", "m">>),
           <<Display_int(self)>>)

\* impl_colorize_for_primitive::bold
prim_bold(self) ==
    format(Lit(<<"ESC", "[", "1", "m", "{", "}", "ESC", "[", "0", "m">>),
           <<Display_int(self)>>)

\* impl_colorize_for_primitive::underline
prim_underline(self) ==
    format(Lit(<<"ESC", "[", "4", "m", "{", "}", "ESC", "[", "0", "m">>),
           <<Display_int(self)>>)

\* impl_colorize_for_primitive::blink
prim_blink(self) ==
    format(Lit(<<"ESC", "[", "5", "m", "{", "}", "ESC", "[", "0", "m">>),
           <<Display_int(self)>>)

\* impl_colorize_for_primitive::rgb
\* rgb with the components written blue first
prim_rgb_bgr(self, color) ==
    format(Lit(<<"ESC", "[", "3", "8", ";", "2", ";", "{", "}", ";", "{", "}", ";", "{", "}", "m", "{", "}", "ESC", "[", "0", "m">>),
           <<Display_int(u8(color[3])), Display_int(u8(color[2])), Display_int(u8(color[1])), Display_int(self)>>)

prim_rgb(self, color) ==
    format(Lit(<<"ESC", "[", "3", "8", ";", "2", ";", "{", "}", ";", "{", "}", ";", "{", "}", "m", "{", "}", "ESC", "[", "0", "m">>),
           <<Display_int(u8(color[1])), Display_int(u8(color[2])), Display_int(u8(color[3])), Display_int(self)>>)

\* impl_colorize_for_primitive::color
prim_color(self, color_code) ==
    format(Lit(<<"ESC", "[", "3", "8", ";", "5", ";", "{", "}", "m", "{", "}", "ESC", "[", "0", "m">>),
           <<Display_int(u8(color_code)), Display_int(self)>>)

\* <&str as ByteColor>::red
str_red(self) ==
    format(Lit(<<"ESC", "[", "3", "1", "m", "{", "}", "ESC", "[", "0", "m">>),
           <<Display_str(self.data)>>)

\* <&str as ByteColor>::green
str_green(self) ==
    format(Lit(<<"ESC", "[", "3", "2", "m", "{", "}", "ESC", "[", "0", "m">>),
           <<Display_str(self.data)>>)

\* <&str as ByteColor>::yellow
str_yellow(self) ==
    format(Lit(<<"ESC", "[", "3", "3", "m", "{", "}", "ESC", "[", "0", "m">>),
           <<Display_str(self.data)>>)

\* <&str as ByteColor>::magenta
str_magenta(self) ==
    format(Lit(<<"ESC", "[", "3", "5", "m", "{", "}", "ESC", "[", "0", "m">>),
           <<Display_str(self.data)>>)

\* <&str as ByteColor>::cyan
str_cyan(self) ==
    format(Lit(<<"ESC", "[", "3", "6", "m", "{", "}", "ESC", "[", "0", "m">>),
           <<Display_str(self.data)>>)

\* <&str as ByteColor>::blue
str_blue(self) ==
    format(Lit(<<"ESC", "[", "3", "4", "m", "{", "}", "ESC", "[", "0", "m">>),
           <<Display_str(self.data)>>)

\* <&str as ByteColor>::bold
str_bold(self) ==
    format(Lit(<<"ESC", "[", "1", "m", "{", "}", "ESC", "[", "0", "m">>),
           <<Display_str(self.data)>>)

\* <&str as ByteColor>::underline
str_underline(self) ==
    format(Lit(<<"ESC", "[", "4", "m", "{", "}", "ESC", "[", "0", "m">>),
           <<Display_str(self.data)>>)

\* blink written with the code of underline
str_blink_as_underline(self) ==
    format(Lit(<<"ESC", "[", "4", "m", "{", "}", "ESC", "[", "0", "m">>),
           <<Display_str(self.data)>>)

\* <&str as ByteColor>::blink
str_blink(self) ==
    format(Lit(<<"ESC", "[", "5", "m", "{", "}", "ESC", "[", "0", "m">>),
           <<Display_str(self.data)>>)

\* <&str as ByteColor>::rgb
str_rgb(self, rgb) ==
    format(Lit(<<"ESC", "[", "3", "8", ";", "2", ";", "{", "}", ";", "{", "}", ";", "{", "}", "m", "{", "}", "ESC", "[", "0", "m">>),
           <<Display_int(u8(rgb[1])), Display_int(u8(rgb[2])), Display_int(u8(rgb[3])), Display_str(self.data)>>)

\* <&str as ByteColor>::color
str_color(self, code) ==
    format(Lit(<<"ESC", "[", "3", "8", ";", "5", ";", "{", "}", "m", "{", "}", "ESC", "[", "0", "m">>),
           <<Display_int(u8(code)), Display_str(self.data)>>)

\* <String as ByteColor>::red
String_red(self) ==
    format(Lit(<<"ESC", "[", "3", "1", "m", "{", "}", "ESC", "[", "0", "m">>),
           <<Display_str(self.data)>>)

\* <String as ByteColor>::green
String_green(self) ==
    format(Lit(<<"ESC", "[", "3", "2", "m", "{", "}", "ESC", "[", "0", "m">>),
           <<Display_str(self.data)>>)

\* <String as ByteColor>::yellow
String_yellow(self) ==
    format(Lit(<<"ESC", "[", "3", "3", "m", "{", "}", "ESC", "[", "0", "m">>),
           <<Display_str(self.data)>>)

\* <String as ByteColor>::magenta
\* magenta written with the code of blue
String_magenta_as_blue(self) ==
    format(Lit(<<"ESC", "[", "3", "4", "m", "{", "}", "ESC", "[", "0", "m">>),
           <<Display_str(self.data)>>)

String_magenta(self) ==
    format(Lit(<<"ESC", "[", "3", "5", "m", "{", "}", "ESC", "[", "0", "m">>),
           <<Display_str(self.data)>>)

\* <String as ByteColor>::cyan
String_cyan(self) ==
    format(Lit(<<"ESC", "[", "3", "6", "m", "{", "}", "ESC", "[", "0", "m">>),
           <<Display_str(self.data)>>)

\* <String as ByteColor>::blue
String_blue(self) ==
    format(Lit(<<"ESC", "[", "3", "4", "m", "{", "}", "ESC", "[", "0", "m">>),
           <<Display_str(self.data)>>)

\* <String as ByteColor>::bold
String_bold(self) ==
    format(Lit(<<"ESC", "[", "1", "m", "{", "}", "ESC", "[", "0", "m">>),
           <<Display_str(self.data)>>)

\* <String as ByteColor>::underline
String_underline(self) ==
    format(Lit(<<"ESC", "[", "4", "m", "{", "}", "ESC", "[", "0", "m">>),
           <<Display_str(self.data)>>)

\* <String as ByteColor>::blink
String_blink(self) ==
    format(Lit(<<"ESC", "[", "5", "m", "{", "}", "ESC", "[", "0", "m">>),
           <<Display_str(self.data)>>)

\* <String as ByteColor>::rgb
String_rgb(self, rgb) ==
    format(Lit(<<"ESC", "[", "3", "8", ";", "2", ";", "{", "}", ";", "{", "}", ";", "{", "}", "m", "{", "}", "ESC", "[", "0", "m">>),
           <<Display_int(u8(rgb[1])), Display_int(u8(rgb[2])), Display_int(u8(rgb[3])), Display_str(self.data)>>)

\* <String as ByteColor>::color
String_color(self, code) ==
    format(Lit(<<"ESC", "[", "3", "8", ";", "5", ";", "{", "}", "m", "{", "}", "ESC", "[", "0", "m">>),
           <<Display_int(u8(code)), Display_str(self.data)>>)

\* <&[u8] as ByteColor>::red
slice_red(self) ==
    format(Lit(<<"ESC", "[", "3", "1", "m", "{", "}", "ESC", "[", "0", "m">>),
           <<Display_str(from_utf8_lossy(self.data))>>)

\* <&[u8] as ByteColor>::green
slice_green(self) ==
    format(Lit(<<"ESC", "[", "3", "2", "m", "{", "}", "ESC", "[", "0", "m">>),
           <<Display_str(from_utf8_lossy(self.data))>>)

\* <&[u8] as ByteColor>::yellow
slice_yellow(self) ==
    format(Lit(<<"ESC", "[", "3", "3", "m", "{", "}", "ESC", "[", "0", "m">>),
           <<Display_str(from_utf8_lossy(self.data))>>)

\* <&[u8] as ByteColor>::magenta
slice_magenta(self) ==
    format(Lit(<<"ESC", "[", "3", "5", "m", "{", "}", "ESC", "[", "0", "m">>),
           <<Display_str(from_utf8_lossy(self.data))>>)

\* <&[u8] as ByteColor>::cyan
slice_cyan(self) ==
    format(Lit(<<"ESC", "[", "3", "6", "m", "{", "}", "ESC", "[", "0", "m">>),
           <<Display_str(from_utf8_lossy(self.data))>>)

\* <&[u8] as ByteColor>::blue
slice_blue(self) ==
    format(Lit(<<"ESC", "[", "3", "4", "m", "{", "}", "ESC", "[", "0", "m">>),
           <<Display_str(from_utf8_lossy(self.data))>>)

\* <&[u8] as ByteColor>::bold
slice_bold(self) ==
    format(Lit(<<"ESC", "[", "1", "m", "{", "}", "ESC", "[", "0", "m">>),
           <<Display_str(from_utf8_lossy(self.data))>>)

\* <&[u8] as ByteColor>::underline
slice_underline(self) ==
    format(Lit(<<"ESC", "[", "4", "m", "{", "}", "ESC", "[", "0", "m">>),
           <<Display_str(from_utf8_lossy(self.data))>>)

\* <&[u8] as ByteColor>::blink
slice_blink(self) ==
    format(Lit(<<"ESC", "[", "5", "m", "{", "}", "ESC", "[", "0", "m">>),
           <<Display_str(from_utf8_lossy(self.data))>>)

\* <&[u8] as ByteColor>::rgb
slice_rgb(self, rgb) ==
    format(Lit(<<"ESC", "[", "3", "8", ";", "2", ";", "{", "}", ";", "{", "}", ";", "{", "}", "m", "{", "}", "ESC", "[", "0", "m">>),
           <<Display_int(u8(rgb[1])), Display_int(u8(rgb[2])), Display_int(u8(rgb[3])), Display_str(from_utf8_lossy(self.data))>>)

\* <&[u8] as ByteColor>::color
\* color written as a background colour, 48;5
slice_color_background(self, code) ==
    format(Lit(<<"ESC", "[", "4", "8", ";", "5", ";", "{", "}", "m", "{", "}", "ESC", "[", "0", "m">>),
           <<Display_int(u8(code)), Display_str(from_utf8_lossy(self.data))>>)

slice_color(self, code) ==
    format(Lit(<<"ESC", "[", "3", "8", ";", "5", ";", "{", "}", "m", "{", "}", "ESC", "[", "0", "m">>),
           <<Display_int(u8(code)), Display_str(from_utf8_lossy(self.data))>>)

\* <Vec<u8> as ByteColor>::red
Vec_red(self) ==
    format(Lit(<<"ESC", "[", "3", "1", "m", "{", "}", "ESC", "[", "0", "m">>),
           <<Display_str(from_utf8_lossy(self.data))>>)

\* <Vec<u8> as ByteColor>::green
Vec_green(self) ==
    format(Lit(<<"ESC", "[", "3", "2", "m", "{", "}", "ESC", "[", "0", "m">>),
           <<Display_str(from_utf8_lossy(self.data))>>)

\* <Vec<u8> as ByteColor>::yellow
Vec_yellow(self) ==
    format(Lit(<<"ESC", "[", "3", "3", "m", "{", "}", "ESC", "[", "0", "m">>),
           <<Display_str(from_utf8_lossy(self.data))>>)

\* <Vec<u8> as ByteColor>::magenta
Vec_magenta(self) ==
    format(Lit(<<"ESC", "[", "3", "5", "m", "{", "}", "ESC", "[", "0", "m">>),
           <<Display_str(from_utf8_lossy(self.data))>>)

\* <Vec<u8> as ByteColor>::cyan
Vec_cyan(self) ==
    format(Lit(<<"ESC", "[", "3", "6", "m", "{", "}", "ESC", "[", "0", "m">>),
           <<Display_str(from_utf8_lossy(self.data))>>)

\* <Vec<u8> as ByteColor>::blue
Vec_blue(self) ==
    format(Lit(<<"ESC", "[", "3", "4", "m", "{", "}", "ESC", "[", "0", "m">>),
           <<Display_str(from_utf8_lossy(self.data))>>)

\* <Vec<u8> as ByteColor>::bold
Vec_bold(self) ==
    format(Lit(<<"ESC", "[", "1", "m", "{", "}", "ESC", "[", "0", "m">>),
           <<Display_str(from_utf8_lossy(self.data))>>)

\* <Vec<u8> as ByteColor>::underline
\* underline without the closing reset
Vec_underline_unterminated(self) ==
    format(Lit(<<"ESC", "[", "4", "m", "{", "}">>),
           <<Display_str(from_utf8_lossy(self.data))>>)

Vec_underline(self) ==
    format(Lit(<<"ESC", "[", "4", "m", "{", "}", "ESC", "[", "0", "m">>),
           <<Display_str(from_utf8_lossy(self.data))>>)

\* <Vec<u8> as ByteColor>::blink
Vec_blink(self) ==
    format(Lit(<<"ESC", "[", "5", "m", "{", "}", "ESC", "[", "0", "m">>),
           <<Display_str(from_utf8_lossy(self.data))>>)

\* <Vec<u8> as ByteColor>::rgb
Vec_rgb(self, rgb) ==
    format(Lit(<<"ESC", "[", "3", "8", ";", "2", ";", "{", "}", ";", "{", "}", ";", "{", "}", "m", "{", "}", "ESC", "[", "0", "m">>),
           <<Display_int(u8(rgb[1])), Display_int(u8(rgb[2])), Display_int(u8(rgb[3])), Display_str(from_utf8_lossy(self.data))>>)

\* <Vec<u8> as ByteColor>::color
Vec_color(self, code) ==
    format(Lit(<<"ESC", "[", "3", "8", ";", "5", ";", "{", "}", "m", "{", "}", "ESC", "[", "0", "m">>),
           <<Display_int(u8(code)), Display_str(from_utf8_lossy(self.data))>>)

\* <&[u8; N] as ByteColor>::red
array_red(self) ==
    slice_red(as_ref(self))

\* <&[u8; N] as ByteColor>::green
array_green(self) ==
    slice_green(as_ref(self))

\* <&[u8; N] as ByteColor>::yellow
array_yellow(self) ==
    slice_yellow(as_ref(self))

\* <&[u8; N] as ByteColor>::magenta
array_magenta(self) ==
    slice_magenta(as_ref(self))

\* cyan delegating to the slice's blue
array_cyan_as_blue(self) ==
    slice_blue(as_ref(self))

\* <&[u8; N] as ByteColor>::cyan
array_cyan(self) ==
    slice_cyan(as_ref(self))

\* <&[u8; N] as ByteColor>::blue
array_blue(self) ==
    slice_blue(as_ref(self))

\* <&[u8; N] as ByteColor>::bold
array_bold(self) ==
    slice_bold(as_ref(self))

\* <&[u8; N] as ByteColor>::underline
array_underline(self) ==
    slice_underline(as_ref(self))

\* <&[u8; N] as ByteColor>::blink
array_blink(self) ==
    slice_blink(as_ref(self))

\* <&[u8; N] as ByteColor>::rgb
array_rgb(self, rgb) ==
    slice_rgb(as_ref(self), rgb)

\* <&[u8; N] as ByteColor>::color
array_color(self, code) ==
    slice_color(as_ref(self), code)

-----------------------------------------------------------------------------
(* The trait: a call of an operation on self goes to the implementation   *)
(* for the type of self.                                                   *)

Styles == {"red", "green", "yellow", "magenta", "cyan", "blue",
           "bold", "underline", "blink"}

Ops == Styles \cup {"rgb", "color"}

TextTypes == {"&str", "String"}

ByteTypes == {"&[u8]", "Vec<u8>", "&[u8; N]"}

Types == PrimTypes \cup TextTypes \cup ByteTypes

\* ByteColor::red
ByteColor_red(self) ==
    CASE self.ty \in PrimTypes -> prim_red(self)
      [] self.ty = "&str" -> str_red(self)
      [] self.ty = "String" -> String_red(self)
      [] self.ty = "&[u8]" -> slice_red(self)
      [] self.ty = "Vec<u8>" -> Vec_red(self)
      [] self.ty = "&[u8; N]" -> array_red(self)

\* ByteColor::green
ByteColor_green(self) ==
    CASE self.ty \in PrimTypes -> prim_green(self)
      [] self.ty = "&str" -> str_green(self)
      [] self.ty = "String" -> String_green(self)
      [] self.ty = "&[u8]" -> slice_green(self)
      [] self.ty = "Vec<u8>" -> Vec_green(self)
      [] self.ty = "&[u8; N]" -> array_green(self)

\* ByteColor::yellow
ByteColor_yellow(self) ==
    CASE self.ty \in PrimTypes -> prim_yellow(self)
      [] self.ty = "&str" -> str_yellow(self)
      [] self.ty = "String" -> String_yellow(self)
      [] self.ty = "&[u8]" -> slice_yellow(self)
      [] self.ty = "Vec<u8>" -> Vec_yellow(self)
      [] self.ty = "&[u8; N]" -> array_yellow(self)

\* ByteColor::magenta
ByteColor_magenta(self) ==
    CASE self.ty \in PrimTypes -> prim_magenta(self)
      [] self.ty = "&str" -> str_magenta(self)
      [] self.ty = "String" -> String_magenta(self)
      [] self.ty = "&[u8]" -> slice_magenta(self)
      [] self.ty = "Vec<u8>" -> Vec_magenta(self)
      [] self.ty = "&[u8; N]" -> array_magenta(self)

\* ByteColor::cyan
ByteColor_cyan(self) ==
    CASE self.ty \in PrimTypes -> prim_cyan(self)
      [] self.ty = "&str" -> str_cyan(self)
      [] self.ty = "String" -> String_cyan(self)
      [] self.ty = "&[u8]" -> slice_cyan(self)
      [] self.ty = "Vec<u8>" -> Vec_cyan(self)
      [] self.ty = "&[u8; N]" -> array_cyan(self)

\* ByteColor::blue
ByteColor_blue(self) ==
    CASE self.ty \in PrimTypes -> prim_blue(self)
      [] self.ty = "&str" -> str_blue(self)
      [] self.ty = "String" -> String_blue(self)
      [] self.ty = "&[u8]" -> slice_blue(self)
      [] self.ty = "Vec<u8>" -> Vec_blue(self)
      [] self.ty = "&[u8; N]" -> array_blue(self)

\* ByteColor::bold
ByteColor_bold(self) ==
    CASE self.ty \in PrimTypes -> prim_bold(self)
      [] self.ty = "&str" -> str_bold(self)
      [] self.ty = "String" -> String_bold(self)
      [] self.ty = "&[u8]" -> slice_bold(self)
      [] self.ty = "Vec<u8>" -> Vec_bold(self)
      [] self.ty = "&[u8; N]" -> array_bold(self)

\* ByteColor::underline
ByteColor_underline(self) ==
    CASE self.ty \in PrimTypes -> prim_underline(self)
      [] self.ty = "&str" -> str_underline(self)
      [] self.ty = "String" -> String_underline(self)
      [] self.ty = "&[u8]" -> slice_underline(self)
      [] self.ty = "Vec<u8>" -> Vec_underline(self)
      [] self.ty = "&[u8; N]" -> array_underline(self)

\* ByteColor::blink
ByteColor_blink(self) ==
    CASE self.ty \in PrimTypes -> prim_blink(self)
      [] self.ty = "&str" -> str_blink(self)
      [] self.ty = "String" -> String_blink(self)
      [] self.ty = "&[u8]" -> slice_blink(self)
      [] self.ty = "Vec<u8>" -> Vec_blink(self)
      [] self.ty = "&[u8; N]" -> array_blink(self)

\* ByteColor::rgb
ByteColor_rgb(self, rgb) ==
    CASE self.ty \in PrimTypes -> prim_rgb(self, rgb)
      [] self.ty = "&str" -> str_rgb(self, rgb)
      [] self.ty = "String" -> String_rgb(self, rgb)
      [] self.ty = "&[u8]" -> slice_rgb(self, rgb)
      [] self.ty = "Vec<u8>" -> Vec_rgb(self, rgb)
      [] self.ty = "&[u8; N]" -> array_rgb(self, rgb)

\* ByteColor::color
ByteColor_color(self, code) ==
    CASE self.ty \in PrimTypes -> prim_color(self, code)
      [] self.ty = "&str" -> str_color(self, code)
      [] self.ty = "String" -> String_color(self, code)
      [] self.ty = "&[u8]" -> slice_color(self, code)
      [] self.ty = "Vec<u8>" -> Vec_color(self, code)
      [] self.ty = "&[u8; N]" -> array_color(self, code)

\* the receiver of the ByteColor call a method's body makes on the way, if
\* it makes one: the methods of &[u8; N] call the method of self.as_ref()
delegate(self) == IF self.ty = "&[u8; N]" THEN <<as_ref(self)>> ELSE <<>>

\* the implementations a call on self enters, the outermost first, as far
\* as depth frames of delegation
RECURSIVE call_chain(_, _)
call_chain(self, depth) ==
    <<self.ty>>
    \o (IF delegate(self) = <<>> \/ depth = 0 THEN <<>>
        ELSE call_chain(Head(delegate(self)), depth - 1))

\* the delegation does not end within MaxDepth frames
overflows(self) == Len(call_chain(self, MaxDepth)) > MaxDepth

\* a call unwinds (panics) when the conversion of its bytes does
unwinds(self) == self.ty \in ByteTypes /\ lossy_run(self.data).panic

\* the callee holds &self, a shared borrow: the value after the call
\* a receiver taken by mutable reference whose bytes are sanitised in place
sanitized_in_place(self) ==
    IF self.ty \in ByteTypes
    THEN [self EXCEPT !.data = from_utf8_lossy(self.data)]
    ELSE self

borrowed(self) == self

-----------------------------------------------------------------------------
(* The values the operations are called on. *)

\* n * 10 + d on the bytes of n, wrapping at the width: the carry into byte i
RECURSIVE MulAddCarry(_, _, _)
MulAddCarry(n, d, i) ==
    IF i = 1 THEN d
    ELSE (n[i - 1] * 10 + MulAddCarry(n, d, i - 1)) \div 256

MulAdd10(n, d) ==
    SubSeq([i \in 1..Len(n) |-> (n[i] * 10 + MulAddCarry(n, d, i)) % 256], 1, Len(n))

Zero(w) == SubSeq([i \in 1..w |-> 0], 1, w)

\* 10^k and 10^k - 1 in w bytes
RECURSIVE Pow10(_, _)
Pow10(k, w) == IF k = 0 THEN MulAdd10(Zero(w), 1) ELSE MulAdd10(Pow10(k - 1, w), 0)

RECURSIVE Nines(_, _)
Nines(k, w) == IF k = 0 THEN Zero(w) ELSE MulAdd10(Nines(k - 1, w), 9)

\* the most decimal digits a magnitude of w bytes has
MaxDigits(w) == CASE w = 1 -> 3 [] w = 2 -> 5 [] w = 4 -> 10 [] w = 8 -> 20

LowBytes == {b \in Byte : b <= NumSpread \/ b >= 255 - NumSpread \/ b = 42}

\* 0x00, 0x7F, 0x80, 0xFF: with the bytes below them all 0x00 or all 0xFF these
\* give the values around 0, the signed minimum and the maxima
TopBytes == {0, 127, 128, 255}

\* the bit patterns of width w the integer inputs take
Patterns(w) ==
    IF w = 1 THEN {<<b>> : b \in Byte}
    ELSE {<<lo>> \o [i \in 1..(w - 2) |-> fill] \o <<top>> :
              lo \in LowBytes, fill \in {0, 255}, top \in TopBytes}
         \cup {Pow10(k, w) : k \in 1..(MaxDigits(w) - 1)}
         \cup {Nines(k, w) : k \in 1..(MaxDigits(w) - 1)}

IntInputs ==
    UNION {{[ty |-> ty, data |-> d] : d \in Patterns(w)} :
               <<ty, w>> \in {tw \in PrimTypes \X {1, 2, 4, 8} : tw[2] \in Widths(tw[1])}}

\* H, ESC, e-acute (2 bytes), the euro sign (3 bytes), U+1F600 (4 bytes)
TextChars == {<<72>>, <<ESC>>, <<195, 169>>, <<226, 130, 172>>, <<240, 159, 152, 128>>}

RECURSIVE TextsOfLen(_)
TextsOfLen(n) ==
    IF n = 0 THEN {<<>>}
    ELSE {t \o c : t \in TextsOfLen(n - 1), c \in TextChars}

\* "Success!", "Text" and a text that is itself a reset sequence
TextSamples ==
    {<<83, 117, 99, 99, 101, 115, 115, 33>>,
     <<84, 101, 120, 116>>,
     Lit(<<"ESC", "[", "0", "m">>)}

Texts == UNION {TextsOfLen(n) : n \in 0..MaxTextLen} \cup TextSamples

TextInputs == {[ty |-> ty, data |-> t] : ty \in TextTypes, t \in Texts}

\* H, a continuation byte, a 2-byte lead, a 3-byte lead, a byte no
\* character holds
ByteAlphabet == {72, 128, 195, 226, 255}

RECURSIVE BytesOfLen(_)
BytesOfLen(n) ==
    IF n = 0 THEN {<<>>}
    ELSE {t \o <<b>> : t \in BytesOfLen(n - 1), b \in ByteAlphabet}

\* four bytes from a lead byte whose second byte has a narrowed range (E0, ED,
\* F0, F4), from C0 and F5 (never valid), or from a plain 3- or 4-byte lead;
\* the second byte at the edges of those ranges
LeadSamples ==
    {<<l, c1, c2, c3>> :
         l \in {192, 224, 237, 240, 241, 244, 245},
         c1 \in {72, 128, 143, 144, 159, 160, 191},
         c2 \in {72, 128},
         c3 \in {72, 128, 255}}

\* the spec's scenario [0xFF, 0x48, 0x49]
ByteSamples == {<<255, 72, 73>>}

ByteSeqs ==
    UNION {BytesOfLen(n) : n \in 0..MaxBytesLen} \cup LeadSamples \cup ByteSamples

ByteInputs == {[ty |-> ty, data |-> b] : ty \in ByteTypes, b \in ByteSeqs}

Inputs == IntInputs \cup TextInputs \cup ByteInputs

\* the (r, g, b) and the palette codes the parameterized operations are given
RgbArgs == {<<70, 130, 180>>, <<0, 9, 10>>, <<255, 100, 99>>}

ColorArgs == {0, 10, 202, 255}

-----------------------------------------------------------------------------------------------------------------------------------------------------
(* The state: one value, shared by its callers through &self; a call by    *)
(* caller c returns a new String into out[c], or unwinds.  left[c] is the  *)
(* number of calls c has still to make.                                    *)

InitWith(v, cs, n) ==
    /\ value = v
    /\ orig = v
    /\ op = [c \in cs |-> "none"]
    /\ arg = [c \in cs |-> <<>>]
    /\ out = [c \in cs |-> <<>>]
    /\ status = [c \in cs |-> "idle"]
    /\ left = [c \in cs |-> n]
    /\ chain = [c \in cs |-> <<>>]

\* any of the inputs, and one call of an operation on it
Init == \E v \in Inputs : InitWith(v, {"main"}, 1)

Callers == DOMAIN op

\* caller c calls value.o(a), and r is what the method returns
Call(c, o, a, r) ==
    /\ status[c] \notin {"panicked", "overflowed"}
    /\ left[c] > 0
    /\ value' = borrowed(value)
    /\ chain' = [chain EXCEPT ![c] = call_chain(value, MaxDepth)]
    /\ IF unwinds(value)
       THEN /\ status' = [status EXCEPT ![c] = "panicked"]
            /\ out' = out
       ELSE IF overflows(value)
       THEN /\ status' = [status EXCEPT ![c] = "overflowed"]
            /\ out' = out
       ELSE /\ status' = [status EXCEPT ![c] = "returned"]
            /\ out' = [out EXCEPT ![c] = r]
    /\ op' = [op EXCEPT ![c] = o]
    /\ arg' = [arg EXCEPT ![c] = a]
    /\ left' = [left EXCEPT ![c] = left[c] - 1]
    /\ UNCHANGED orig

red == \E c \in Callers : Call(c, "red", <<>>, ByteColor_red(value))

green == \E c \in Callers : Call(c, "green", <<>>, ByteColor_green(value))

yellow == \E c \in Callers : Call(c, "yellow", <<>>, ByteColor_yellow(value))

magenta == \E c \in Callers : Call(c, "magenta", <<>>, ByteColor_magenta(value))

cyan == \E c \in Callers : Call(c, "cyan", <<>>, ByteColor_cyan(value))

blue == \E c \in Callers : Call(c, "blue", <<>>, ByteColor_blue(value))

bold == \E c \in Callers : Call(c, "bold", <<>>, ByteColor_bold(value))

underline == \E c \in Callers : Call(c, "underline", <<>>, ByteColor_underline(value))

blink == \E c \in Callers : Call(c, "blink", <<>>, ByteColor_blink(value))

rgb == \E c \in Callers : \E a \in RgbArgs : Call(c, "rgb", a, ByteColor_rgb(value, a))

color == \E c \in Callers : \E k \in ColorArgs : Call(c, "color", <<k>>, ByteColor_color(value, k))

Next ==
    \/ red
    \/ green
    \/ yellow
    \/ magenta
    \/ cyan
    \/ blue
    \/ bold
    \/ underline
    \/ blink
    \/ rgb
    \/ color

Spec == Init /\ [][Next]_vars

\* two threads that hold the same value by shared reference, each making a
\* sequence of calls on it, in any interleaving
ConcCallers == {"t1", "t2"}

\* -128i8, "Text", and the bytes [0xFF, 0x48, 0x49] as a slice
ConcInputs ==
    {[ty |-> "i8", data |-> <<128>>],
     [ty |-> "&str", data |-> <<84, 101, 120, 116>>],
     [ty |-> "&[u8]", data |-> <<255, 72, 73>>]}

ConcInit == \E v \in ConcInputs : InitWith(v, ConcCallers, ConcCalls)

ConcSpec == ConcInit /\ [][Next]_vars

\* a program that styles a text and then styles the String it got: inner
\* is its first call, outer its second
NestCallers == {"inner", "outer"}

\* "", "Text", a reset sequence, a lone ESC, the euro sign
NestInputs ==
    {[ty |-> ty, data |-> t] :
         ty \in TextTypes,
         t \in {<<>>, <<84, 101, 120, 116>>, Lit(<<"ESC", "[", "0", "m">>),
                <<ESC>>, <<226, 130, 172>>}}

NestInit ==
    \E v \in NestInputs :
        /\ value = v
        /\ orig = v
        /\ op = [c \in NestCallers |-> "none"]
        /\ arg = [c \in NestCallers |-> <<>>]
        /\ out = [c \in NestCallers |-> <<>>]
        /\ status = [c \in NestCallers |-> "idle"]
        /\ left = [c \in NestCallers |-> IF c = "inner" THEN 1 ELSE 0]
        /\ chain = [c \in NestCallers |-> <<>>]

\* the String the first call returned becomes the receiver of the second
rebind ==
    /\ "outer" \in Callers
    /\ status["inner"] = "returned"
    /\ left["inner"] = 0
    /\ status["outer"] = "idle"
    /\ left["outer"] = 0
    /\ value' = [ty |-> "String", data |-> out["inner"]]
    /\ left' = [left EXCEPT !["outer"] = 1]
    /\ UNCHANGED <<orig, op, arg, out, status, chain>>

NestNext ==
    \/ red
    \/ green
    \/ yellow
    \/ magenta
    \/ cyan
    \/ blue
    \/ bold
    \/ underline
    \/ blink
    \/ rgb
    \/ color
    \/ rebind

NestSpec == NestInit /\ [][NestNext]_vars

-----------------------------------------------------------------------------
(* What the operations are specified to return, stated without the code's  *)
(* algorithms: the escape prefixes by the table of codes, the decimal text *)
(* of an integer by what it denotes, the lossy decoding by the table of    *)
(* well-formed UTF-8 byte sequences.                                       *)

RESET == <<ESC, 91, 48, 109>>

StyleCode(o) ==
    CASE o = "red" -> 31
      [] o = "green" -> 32
      [] o = "yellow" -> 33
      [] o = "magenta" -> 35
      [] o = "cyan" -> 36
      [] o = "blue" -> 34
      [] o = "bold" -> 1
      [] o = "underline" -> 4
      [] o = "blink" -> 5

\* the unpadded decimal text of a natural number k
RECURSIVE Decimal(_)
Decimal(k) ==
    IF k < 10 THEN <<48 + k>> ELSE Decimal(k \div 10) \o <<48 + (k % 10)>>

\* ESC [ <code> m for operation o with parameters a
Prefix(o, a) ==
    <<ESC, 91>>
    \o (CASE o \in Styles -> Decimal(StyleCode(o))
          [] o = "rgb" -> <<51, 56, 59, 50, 59>> \o Decimal(Head(a)) \o <<59>>
                          \o Decimal(Head(Tail(a))) \o <<59>>
                          \o Decimal(Head(Tail(Tail(a))))
          [] o = "color" -> <<51, 56, 59, 53, 59>> \o Decimal(Head(a)))
    \o <<109>>

StartsWith(s, p) == Len(s) >= Len(p) /\ SubSeq(s, 1, Len(p)) = p

EndsWith(s, e) == Len(s) >= Len(e) /\ SubSeq(s, Len(s) - Len(e) + 1, Len(s)) = e

\* what stands in s between a prefix of n bytes and the four bytes of the reset
Between(s, n) == SubSeq(s, n + 1, Len(s) - Len(RESET))

\* the number the digits ds denote, in w bytes (wrapping)
RECURSIVE Parse(_, _)
Parse(ds, w) ==
    IF ds = <<>> THEN Zero(w)
    ELSE MulAdd10(Parse(SubSeq(ds, 1, Len(ds) - 1), w), ds[Len(ds)] - 48)

\* the digits ds denote the number whose little-endian bytes are x: at most
\* MaxDigits digits denote less than 256^(Len(x) + 1), so that one more byte
\* holds the number without wrapping
Denotes(ds, x) ==
    /\ Len(ds) <= MaxDigits(Len(x))
    /\ Parse(ds, Len(x) + 1) = x \o <<0>>

\* the carry into byte i of x + y
RECURSIVE SumCarry(_, _, _)
SumCarry(x, y, i) ==
    IF i = 1 THEN 0 ELSE (x[i - 1] + y[i - 1] + SumCarry(x, y, i - 1)) \div 256

\* x + y, in one byte more than x and y have
Sum(x, y) ==
    SubSeq([i \in 1..(Len(x) + 1) |->
                IF i <= Len(x) THEN (x[i] + y[i] + SumCarry(x, y, i)) % 256
                ELSE SumCarry(x, y, i)], 1, Len(x) + 1)

\* 256^w
TwoTo8(w) == Zero(w) \o <<1>>

\* d is the canonical base-10 text of the integer v: digits with no leading
\* zero that denote v, or '-' and the digits of -v when v is negative; the
\* bytes y of a negative v stand for y - 256^w
IsDecimalOf(d, v) ==
    LET w == Len(v.data)
        negative == v.ty \in SignedTypes /\ v.data[w] >= 128
        minus == d # <<>> /\ Head(d) = 45
        ds == IF minus THEN Tail(d) ELSE d
    IN  /\ ds # <<>>
        /\ \A i \in 1..Len(ds) : ds[i] \in 48..57
        /\ Len(ds) > 1 => Head(ds) # 48
        /\ minus <=> negative
        /\ IF negative
           THEN \E m \in {Parse(ds, w)} : Denotes(ds, m) /\ Sum(m, v.data) = TwoTo8(w)
           ELSE Denotes(ds, v.data)

\* the well-formed UTF-8 byte sequences (Unicode, table 3-7): the ranges of
\* the successive bytes of a character
WellFormedTable ==
    {<<0..127>>,
     <<194..223, 128..191>>,
     <<{224}, 160..191, 128..191>>,
     <<225..236, 128..191, 128..191>>,
     <<{237}, 128..159, 128..191>>,
     <<238..239, 128..191, 128..191>>,
     <<{240}, 144..191, 128..191, 128..191>>,
     <<241..243, 128..191, 128..191, 128..191>>,
     <<{244}, 128..143, 128..191, 128..191>>}

\* how many of the bytes of b from position i on follow the row
Matched(b, i, row) ==
    LET ok == {k \in 0..Len(row) :
                  \A j \in 1..k : i + j - 1 <= Len(b) /\ b[i + j - 1] \in row[j]}
    IN  CHOOSE k \in ok : \A m \in ok : m <= k

\* the length of the character that starts at position i of b, 0 if none does
CharLen(b, i) ==
    LET whole == {Len(row) : row \in {r \in WellFormedTable : Matched(b, i, r) = Len(r)}}
    IN  IF whole = {} THEN 0 ELSE CHOOSE n \in whole : TRUE

\* the length of the longest beginning of a character at position i of b
MaximalSubpart(b, i) ==
    LET ms == {Matched(b, i, row) : row \in WellFormedTable}
    IN  CHOOSE k \in ms : \A m \in ms : m <= k

\* b from position i on, every character kept and every maximal ill-formed
\* part (or single byte that begins nothing) replaced by U+FFFD
RECURSIVE LossyFrom(_, _)
LossyFrom(b, i) ==
    IF i > Len(b) THEN <<>>
    ELSE IF CharLen(b, i) > 0
         THEN SubSeq(b, i, i + CharLen(b, i) - 1) \o LossyFrom(b, i + CharLen(b, i))
         ELSE <<239, 191, 189>>
              \o LossyFrom(b, i + (IF MaximalSubpart(b, i) = 0 THEN 1
                                   ELSE MaximalSubpart(b, i)))

lossy_utf8_decode(b) == LossyFrom(b, 1)

\* b from position i on is a sequence of whole characters
RECURSIVE WellFormedFrom(_, _)
WellFormedFrom(b, i) ==
    \/ i > Len(b)
    \/ CharLen(b, i) > 0 /\ WellFormedFrom(b, i + CharLen(b, i))

\* b is a Rust String's content
IsString(b) == b \in Seq(Byte) /\ WellFormedFrom(b, 1)

\* t is the text the operations wrap for the input v
IsTextOf(t, v) ==
    CASE v.ty \in PrimTypes -> IsDecimalOf(t, v)
      [] v.ty \in TextTypes -> t = v.data
      [] v.ty \in ByteTypes -> t = lossy_utf8_decode(v.data)

Returned(c) == status[c] = "returned"

\* operation o with parameters a applied to v
Apply(o, a, v) ==
    CASE o = "red" -> ByteColor_red(v)
      [] o = "green" -> ByteColor_green(v)
      [] o = "yellow" -> ByteColor_yellow(v)
      [] o = "magenta" -> ByteColor_magenta(v)
      [] o = "cyan" -> ByteColor_cyan(v)
      [] o = "blue" -> ByteColor_blue(v)
      [] o = "bold" -> ByteColor_bold(v)
      [] o = "underline" -> ByteColor_underline(v)
      [] o = "blink" -> ByteColor_blink(v)
      [] o = "rgb" -> ByteColor_rgb(v, a)
      [] o = "color" -> ByteColor_color(v, Head(a))

-----------------------------------------------------------------------------
\* C1: whatever the operation and the type of the input, the returned string
\* begins with ESC [ <code> m, ends with the reset ESC [ 0 m, and has exactly
\* the input's text between the two.
InvWrapped ==
    \A c \in Callers :
        Returned(c) =>
            LET p == Prefix(op[c], arg[c])
            IN  /\ Len(out[c]) >= Len(p) + Len(RESET)
                /\ StartsWith(out[c], p)
                /\ EndsWith(out[c], RESET)
                /\ IsTextOf(Between(out[c], Len(p)), value)

\* an operation with parameters has returned for a fixed-size array of bytes
\* that are not valid UTF-8
WitWrapped ==
    \E c \in Callers :
        /\ Returned(c)
        /\ op[c] = "rgb"
        /\ value.ty = "&[u8; N]"
        /\ value.data = <<240, 159, 128, 255>>
        /\ Len(out[c]) > Len(Prefix(op[c], arg[c])) + Len(RESET)

\* C2: a parameterless style of an integer returns ESC [ code m, the
\* canonical decimal text of the value ('-' and the magnitude for a negative
\* value, no padding) and the reset; so for the minimum and the maximum of
\* the widest types, and for the documented green of 42u32.
InvDecimal ==
    \A c \in Callers :
        (Returned(c) /\ value.ty \in PrimTypes /\ op[c] \in Styles) =>
            /\ \E d \in {Between(out[c], Len(Decimal(StyleCode(op[c]))) + 3)} :
                   /\ out[c] = <<ESC, 91>> \o Decimal(StyleCode(op[c])) \o <<109>>
                               \o d \o RESET
                   /\ IsDecimalOf(d, value)
            /\ (value.ty = "i64" /\ value.data = <<0, 0, 0, 0, 0, 0, 0, 128>>) =>
                   Between(out[c], Len(Decimal(StyleCode(op[c]))) + 3)
                       = <<45, 57, 50, 50, 51, 51, 55, 50, 48, 51, 54, 56, 53, 52, 55,
                           55, 53, 56, 48, 56>>
            /\ (value.ty = "u64" /\ value.data = <<255, 255, 255, 255, 255, 255, 255, 255>>) =>
                   Between(out[c], Len(Decimal(StyleCode(op[c]))) + 3)
                       = <<49, 56, 52, 52, 54, 55, 52, 52, 48, 55, 51, 55, 48, 57, 53,
                           53, 49, 54, 49, 53>>
            /\ (value.ty = "u32" /\ value.data = <<42, 0, 0, 0>> /\ op[c] = "green") =>
                   out[c] = <<ESC, 91, 51, 50, 109, 52, 50, ESC, 91, 48, 109>>

\* magenta of i64::MIN has returned
WitDecimal ==
    \E c \in Callers :
        /\ Returned(c)
        /\ op[c] = "magenta"
        /\ value = [ty |-> "i64", data |-> <<0, 0, 0, 0, 0, 0, 0, 128>>]
        /\ Len(out[c]) = 29

\* the other of the two text types
OtherText(ty) == IF ty = "&str" THEN "String" ELSE "&str"

\* C3: a parameterless style of a text (&str or String) returns
\* ESC [ code m, the text byte for byte, and the reset; bold of the empty text
\* is ESC [ 1 m ESC [ 0 m; and the implementation for the other text type
\* returns the same string for the same text.
InvVerbatim ==
    \A c \in Callers :
        (Returned(c) /\ value.ty \in TextTypes /\ op[c] \in Styles) =>
            /\ out[c] = <<ESC, 91>> \o Decimal(StyleCode(op[c])) \o <<109>>
                        \o value.data \o RESET
            /\ (value.data = <<>> /\ op[c] = "bold") =>
                   out[c] = <<ESC, 91, 49, 109, ESC, 91, 48, 109>>
            /\ Apply(op[c], arg[c], [ty |-> OtherText(value.ty), data |-> value.data])
                   = out[c]

\* bold of the empty String has returned
WitVerbatim ==
    \E c \in Callers :
        /\ Returned(c)
        /\ op[c] = "bold"
        /\ value = [ty |-> "String", data |-> <<>>]
        /\ out[c] = <<ESC, 91, 49, 109, ESC, 91, 48, 109>>

\* C4: a parameterless style of a byte sequence (&[u8] or Vec<u8>), valid
\* UTF-8 or not, returns ESC [ code m, the lossy decoding of the bytes
\* (characters kept, ill-formed parts replaced by U+FFFD) and the reset.
InvLossy ==
    \A c \in Callers :
        (Returned(c) /\ value.ty \in {"&[u8]", "Vec<u8>"} /\ op[c] \in Styles) =>
            out[c] = <<ESC, 91>> \o Decimal(StyleCode(op[c])) \o <<109>>
                     \o lossy_utf8_decode(value.data) \o RESET

\* red of a Vec<u8> whose three-byte character is cut short has returned,
\* with U+FFFD in its place
WitLossy ==
    \E c \in Callers :
        /\ Returned(c)
        /\ op[c] = "red"
        /\ value = [ty |-> "Vec<u8>", data |-> <<72, 226, 128>>]
        /\ Between(out[c], 5) = <<72, 239, 191, 189>>

\* the text that the parameterless style o wraps for the input v
Wrapped(o, v) == Between(Apply(o, <<>>, v), Len(Prefix(o, <<>>)))

\* C5: rgb of any input with (r, g, b) returns ESC [ 38;2; r ; g ; b m with
\* the components in that order, each in unpadded decimal, then the text
\* that the parameterless styles wrap for the input, then the reset.
InvRgb ==
    \A c \in Callers :
        (Returned(c) /\ op[c] = "rgb") =>
            \E t \in {Wrapped("bold", value)} :
                /\ out[c] = <<ESC, 91, 51, 56, 59, 50, 59>>
                            \o Decimal(arg[c][1]) \o <<59>>
                            \o Decimal(arg[c][2]) \o <<59>>
                            \o Decimal(arg[c][3]) \o <<109>>
                            \o t \o RESET
                /\ \A o \in Styles : Wrapped(o, value) = t
                /\ IsTextOf(t, value)

\* rgb with three different components of one, two and three digits has
\* returned for a negative integer
WitRgb ==
    \E c \in Callers :
        /\ Returned(c)
        /\ op[c] = "rgb"
        /\ arg[c] = <<0, 9, 10>>
        /\ value = [ty |-> "i16", data |-> <<0, 128>>]
        /\ out[c] = <<ESC, 91, 51, 56, 59, 50, 59, 48, 59, 57, 59, 49, 48, 109,
                      45, 51, 50, 55, 54, 56, ESC, 91, 48, 109>>

\* C6: color of any input with a code of 0..255 returns ESC [ 38;5; code m
\* with the code in unpadded decimal, then the text that the parameterless
\* styles wrap for the input, then the reset.
InvColor ==
    \A c \in Callers :
        (Returned(c) /\ op[c] = "color") =>
            \E t \in {Wrapped("bold", value)} :
                /\ arg[c][1] \in 0..255
                /\ out[c] = <<ESC, 91, 51, 56, 59, 53, 59>>
                            \o Decimal(arg[c][1]) \o <<109>>
                            \o t \o RESET
                /\ \A o \in Styles : Wrapped(o, value) = t
                /\ IsTextOf(t, value)

\* color with both ends of the range of codes: 255 has returned for "Text"
WitColor ==
    \E c \in Callers :
        /\ Returned(c)
        /\ op[c] = "color"
        /\ arg[c] = <<255>>
        /\ value = [ty |-> "&str", data |-> <<84, 101, 120, 116>>]
        /\ out[c] = <<ESC, 91, 51, 56, 59, 53, 59, 50, 53, 53, 109,
                      84, 101, 120, 116, ESC, 91, 48, 109>>

\* C7: no call ends in a panic: every call made has returned, and what it
\* returned is a String (well-formed UTF-8), also for the empty byte sequence
\* and for bytes that are not valid UTF-8.
InvTotal ==
    \A c \in Callers :
        /\ status[c] # "panicked"
        /\ op[c] # "none" => (Returned(c) /\ IsString(out[c]))

\* a call has returned for bytes that end inside a character
WitTotal ==
    \E c \in Callers :
        /\ Returned(c)
        /\ value.ty \in ByteTypes
        /\ value.data = <<72, 226, 128>>
        /\ ~IsString(value.data)

NeverLead == (128..193) \cup (245..255)

\* b from position i on is made of whole characters and of stray bytes,
\* bytes that begin no character and stand where none is being continued
RECURSIVE CoveredFrom(_, _)
CoveredFrom(b, i) ==
    \/ i > Len(b)
    \/ CharLen(b, i) > 0 /\ CoveredFrom(b, i + CharLen(b, i))
    \/ b[i] \in NeverLead /\ CoveredFrom(b, i + 1)

\* such a b with each character kept and each stray byte replaced by U+FFFD
RECURSIVE StrayFrom(_, _)
StrayFrom(b, i) ==
    IF i > Len(b) THEN <<>>
    ELSE IF CharLen(b, i) > 0
         THEN SubSeq(b, i, i + CharLen(b, i) - 1) \o StrayFrom(b, i + CharLen(b, i))
         ELSE <<239, 191, 189>> \o StrayFrom(b, i + 1)

\* C10: in a byte sequence made of whole characters and stray bytes, every
\* stray byte gives exactly one U+FFFD and the characters before and after
\* it are kept as they are, in their order; cyan of [0xFF, 0x48, 0x49] is
\* ESC [ 36 m, U+FFFD, "HI", ESC [ 0 m.
InvStray ==
    \A c \in Callers :
        (Returned(c) /\ value.ty \in ByteTypes) =>
            /\ CoveredFrom(value.data, 1) =>
                   Between(out[c], Len(Prefix(op[c], arg[c]))) = StrayFrom(value.data, 1)
            /\ (value.data = <<255, 72, 73>> /\ op[c] = "cyan") =>
                   out[c] = <<ESC, 91, 51, 54, 109, 239, 191, 189, 72, 73, ESC, 91, 48, 109>>

\* cyan of [0xFF, 0x48, 0x49] has returned
WitStray ==
    \E c \in Callers :
        /\ Returned(c)
        /\ op[c] = "cyan"
        /\ value.data = <<255, 72, 73>>
        /\ out[c] = <<ESC, 91, 51, 54, 109, 239, 191, 189, 72, 73, ESC, 91, 48, 109>>

\* C11: an operation returns the same string for a text and for the UTF-8
\* bytes of that text, whichever of the text and of the byte types hold them:
\* what a call on a text returned is what the operation returns for its
\* bytes, what a call on bytes that are valid UTF-8 returned is what the
\* operation returns for the text, and those bytes stand in it unchanged.
InvBytesAsText ==
    \A c \in Callers :
        Returned(c) =>
            /\ value.ty \in TextTypes =>
                   \A bt \in ByteTypes :
                       Apply(op[c], arg[c], [ty |-> bt, data |-> value.data]) = out[c]
            /\ (value.ty \in ByteTypes /\ IsString(value.data)) =>
                   /\ \A tt \in TextTypes :
                          Apply(op[c], arg[c], [ty |-> tt, data |-> value.data]) = out[c]
                   /\ Between(out[c], Len(Prefix(op[c], arg[c]))) = value.data

\* color has returned for the four bytes of U+10000 held in a Vec<u8>
WitBytesAsText ==
    \E c \in Callers :
        /\ Returned(c)
        /\ op[c] = "color"
        /\ value = [ty |-> "Vec<u8>", data |-> <<240, 144, 128, 128>>]
        /\ IsString(value.data)
        /\ out[c] = Apply("color", arg[c], [ty |-> "&str", data |-> value.data])

\* C12: for the same bytes and the same operation and parameters, the
\* implementations for &[u8], Vec<u8> and &[u8; N] return the same string,
\* valid UTF-8 or not.
InvByteImplsAgree ==
    \A c \in Callers :
        (Returned(c) /\ value.ty \in ByteTypes) =>
            \A bt \in ByteTypes :
                Apply(op[c], arg[c], [ty |-> bt, data |-> value.data]) = out[c]

\* cyan has returned for an array of three bytes that are not valid UTF-8
WitByteImplsAgree ==
    \E c \in Callers :
        /\ Returned(c)
        /\ op[c] = "cyan"
        /\ value = [ty |-> "&[u8; N]", data |-> <<255, 72, 73>>]
        /\ out[c] = Apply("cyan", <<>>, [ty |-> "Vec<u8>", data |-> value.data])

\* C13: every call on a &[u8; N], of whatever N, returns: it enters the
\* implementation for &[u8; N] once and from there, in one step of
\* delegation, the implementation for &[u8], whose operation of the same
\* name gives the result; no implementation is entered twice, by any call.
InvDelegatesOnce ==
    \A c \in Callers :
        /\ status[c] # "overflowed"
        /\ \A i, j \in 1..Len(chain[c]) : chain[c][i] = chain[c][j] => i = j
        /\ (op[c] # "none" /\ value.ty = "&[u8; N]") =>
               /\ Returned(c)
               /\ chain[c] = <<"&[u8; N]", "&[u8]">>
               /\ out[c] = Apply(op[c], arg[c], [ty |-> "&[u8]", data |-> value.data])
        /\ (op[c] # "none" /\ value.ty # "&[u8; N]") => chain[c] = <<value.ty>>

\* blink has returned for a reference to the empty array, N = 0
WitDelegatesOnce ==
    \E c \in Callers :
        /\ Returned(c)
        /\ op[c] = "blink"
        /\ value = [ty |-> "&[u8; N]", data |-> <<>>]
        /\ chain[c] = <<"&[u8; N]", "&[u8]">>
        /\ out[c] = <<ESC, 91, 53, 109, ESC, 91, 48, 109>>

\* C14: a style applied to the String another style returned wraps that
\* String as it is: the result is the prefix of the second operation, the
\* prefix of the first, the text, and two resets; the first result, ESC
\* sequences and all, stands in it unchanged, as do the ESC sequences of the
\* text in the first result.
InvNested ==
    /\ (status["inner"] = "returned") =>
           out["inner"] = Prefix(op["inner"], arg["inner"]) \o orig.data \o RESET
    /\ ("outer" \in Callers /\ status["outer"] = "returned") =>
           /\ out["outer"] = Prefix(op["outer"], arg["outer"])
                             \o Prefix(op["inner"], arg["inner"])
                             \o orig.data \o RESET \o RESET
           /\ out["outer"] = Prefix(op["outer"], arg["outer"]) \o out["inner"] \o RESET
           /\ value.data = out["inner"]

\* bold of the String that red of "Text" returned
WitNested ==
    /\ "outer" \in Callers
    /\ status["outer"] = "returned"
    /\ op["inner"] = "red"
    /\ op["outer"] = "bold"
    /\ orig.data = <<84, 101, 120, 116>>
    /\ out["outer"] = <<ESC, 91, 49, 109, ESC, 91, 51, 49, 109, 84, 101, 120, 116,
                        ESC, 91, 48, 109, ESC, 91, 48, 109>>

\* the parameters the operation o is called with
ArgsOf(o) ==
    CASE o = "rgb" -> RgbArgs
      [] o = "color" -> {<<k>> : k \in ColorArgs}
      [] OTHER -> {<<>>}

\* inputs of the type of v with another text: for a text, the text with a
\* reset or an ESC added, with its last four bytes removed, the empty text
\* and "Text"; for an integer, the next value and the one's complement
Rivals(v) ==
    {[ty |-> v.ty, data |-> d] :
         d \in (IF v.ty \in TextTypes
                THEN {v.data \o RESET, RESET \o v.data, v.data \o <<ESC>>,
                      SubSeq(v.data, 1, Len(v.data) - 4), <<>>, <<84, 101, 120, 116>>}
                ELSE {[i \in 1..Len(v.data) |->
                           IF i = 1 THEN (v.data[i] + 1) % 256 ELSE v.data[i]],
                      [i \in 1..Len(v.data) |-> 255 - v.data[i]]})
           \ {v.data}}

\* C15: for an integer or a text, what an operation returned with the
\* operation's prefix taken from its front and the four bytes of the reset
\* taken from its end is the input's text, ESC sequences and a closing reset
\* of the text included; the same operation returns something else for
\* another text, and another operation or other parameters return something
\* else for the same input.
InvReversible ==
    \A c \in Callers :
        (Returned(c) /\ value.ty \in PrimTypes \cup TextTypes) =>
            /\ StartsWith(out[c], Prefix(op[c], arg[c]))
            /\ EndsWith(out[c], RESET)
            /\ Len(out[c]) >= Len(Prefix(op[c], arg[c])) + Len(RESET)
            /\ IsTextOf(Between(out[c], Len(Prefix(op[c], arg[c]))), value)
            /\ \A v \in Rivals(value) : Apply(op[c], arg[c], v) # out[c]
            /\ \A o \in Ops : \A a \in ArgsOf(o) :
                   <<o, a>> # <<op[c], arg[c]>> => Apply(o, a, value) # out[c]

\* blink has returned for a &str that is itself a reset sequence
WitReversible ==
    \E c \in Callers :
        /\ Returned(c)
        /\ op[c] = "blink"
        /\ value = [ty |-> "&str", data |-> <<ESC, 91, 48, 109>>]
        /\ out[c] = <<ESC, 91, 53, 109, ESC, 91, 48, 109, ESC, 91, 48, 109>>

====
